---- MODULE Spec2Model ----
(***************************************************************************)
(* Model of tutorials/custom_botorch_model_in_ax.ipynb: a custom GP model  *)
(* (SimpleCustomGP), its factory (_get_and_fit_custom_model), the noisy    *)
(* Branin evaluation function, the Sobol warm-start batch and the fixed    *)
(* five-iteration GP+EI loop that drives an Ax SimpleExperiment.           *)
(*                                                                         *)
(* The notebook is a straight-line script.  pc is the statement about to   *)
(* run.  No statement is wrapped in try/except, so an exception raised by  *)
(* fit_model or by the evaluation function propagates out of the cell and  *)
(* ends the run (pc = "raised").                                           *)
(*                                                                         *)
(* Evaluation follows the notebook's own account of Ax (the text above the  *)
(* warm-start cell): creating a trial makes Ax evaluate branin at the       *)
(* generated points and keep track of the results; exp.eval() returns the  *)
(* data of every tracked arm.  GP inference, the acquisition optimiser and *)
(* the bridge's data transforms are library code: a fitted model is        *)
(* represented by the training data it was built from, and a generated     *)
(* candidate is any point of a small grid inside the search space.         *)
(*                                                                         *)
(* Units: metric values are integers in tenths (0.1 = 1).  Parameter       *)
(* values are whole numbers inside the search-space bounds.                *)
(***************************************************************************)
EXTENDS Integers, Sequences, FiniteSets, TLC

VARIABLES
    pc,            \* statement about to run
    i,             \* loop variable of `for i in range(5)`: iterations completed
    obs,           \* exp: the evaluated arms the experiment keeps track of, in order
    custom_model,  \* the name custom_model: <<>> unbound, <<bridge>> once assigned
    candidate,     \* generator run of custom_model.gen(1), not yet attached to a trial
    error,         \* exception that ended the run, "none" while running
    argXs,         \* Xs of the latest call of the model factory
    argYs,         \* Ys of the latest call of the model factory
    factoryResult, \* value returned by a direct call of the model factory
    fitCalls,      \* history: calls of _get_and_fit_custom_model
    fitFailures,   \* history: calls of _get_and_fit_custom_model that raised
    evalCalls,     \* history: calls of branin
    evalFailures,  \* history: calls of branin that raised
    modelGens      \* history: calls of custom_model.gen

vars == <<pc, i, obs, custom_model, candidate, error, argXs, argYs,
          factoryResult, fitCalls, fitFailures, evalCalls, evalFailures,
          modelGens>>

----------------------------------------------------------------------------
(* Program constants *)

WarmStartCount == 5
Rounds == 5
BatchSize == 1
X1Lower == -5
X1Upper == 10
X2Lower == 0
X2Upper == 15
NoiseTenths == 1
StandardError == 0

(* Bounds of the model *)

GridSize == 2
MaxOutcomes == 2
MaxRows == 2
MaxFailureLimit == 3

----------------------------------------------------------------------------
(* Search space and evaluation function *)

Point(a, b) == [x1 |-> a, x2 |-> b]

InSearchSpace(p) ==
    /\ X1Lower <= p.x1 /\ p.x1 <= X1Upper
    /\ X2Lower <= p.x2 /\ p.x2 <= X2Upper

\* The five points of sobol.gen(5): a fixed low-discrepancy sequence.
SobolPoints ==
    <<Point(2, 7), Point(6, 3), Point(-1, 11), Point(0, 5), Point(8, 13)>>

\* Points the acquisition optimiser may return, best first.
CandidatePoints ==
    <<Point(-3, 12), Point(3, 2), Point(9, 2), Point(10, 15)>>

\* The generator returns only points inside the search space.
Grid == {p \in {CandidatePoints[k] : k \in 1..GridSize} : InSearchSpace(p)}

\* The noise-free Branin value at p, in tenths, rounded.
BraninTenths(p) ==
    CASE p = Point(2, 7)   -> 194
      [] p = Point(6, 3)   -> 228
      [] p = Point(-1, 11) -> 259
      [] p = Point(0, 5)   -> 206
      [] p = Point(8, 13)  -> 1400
      [] p = Point(-3, 12) -> 5
      [] p = Point(3, 2)   -> 6
      [] p = Point(9, 2)   -> 13
      [] p = Point(10, 15) -> 1459

\* Draws of random.normalvariate(0, 0.1): one standard deviation either way.
NoiseDraws == {-NoiseTenths, NoiseTenths}

\* branin(parameterization): {"branin": (y, 0.0)} with y the noisy value.
branin(p, noise) ==
    [x1 |-> p.x1, x2 |-> p.x2, metric_name |-> "branin",
     mean |-> BraninTenths(p) + noise, sem |-> StandardError]

\* An evaluation that loses the result of the last arm.
Evaluate_DropLast(ps, ns) == [k \in 1..(Len(ps) - 1) |-> branin(ps[k], ns[k])]

\* The observations of evaluating the arms ps with the noise draws ns.
Evaluate(ps, ns) == [k \in 1..Len(ps) |-> branin(ps[k], ns[k])]

NoiseVectors(n) == [1..n -> NoiseDraws]

\* What exp keeps once a trial's arms are evaluated: the results are added
\* after everything already tracked.
Attach_Prepend(tracked, results) == results \o tracked

Attach(tracked, results) == tracked \o results

----------------------------------------------------------------------------
(* The custom model and its factory *)

\* SimpleCustomGP(train_X, train_Y); num_outputs is the constant 1.
SimpleCustomGP(train_X, train_Y) ==
    [train_X |-> train_X, train_Y |-> train_Y, num_outputs |-> 1]

\* Y.view(-1): an n x 1 tensor read as a vector of n values.
ViewFlat(Y) == [k \in 1..Len(Y) |-> Y[k][1]]

\* The factory reading the last outcome instead of the first.
GetAndFitCustomModel_Last(Xs, Ys) ==
    SimpleCustomGP(Xs[Len(Xs)], ViewFlat(Ys[Len(Ys)]))

\* _get_and_fit_custom_model(Xs, Ys): the model it returns when fit_model
\* returns.  Python's index 0 is index 1 here.
GetAndFitCustomModel(Xs, Ys) == SimpleCustomGP(Xs[1], ViewFlat(Ys[1]))

\* exp.eval(): the data of every arm the experiment tracks.
ExpEval == obs

\* What the bridge hands the factory for the single metric "branin":
\* one n x d feature tensor and one n x 1 tensor of means.
FeaturesOf(data) == <<[k \in 1..Len(data) |-> <<data[k].x1, data[k].x2>>]>>
MeansOf(data) == <<[k \in 1..Len(data) |-> <<data[k].mean>>]>>

\* The bridge fitted on the warm-start data only.
TorchModelBridge_WarmOnly(data) ==
    LET old == SubSeq(data, 1, WarmStartCount) IN
    [data |-> old,
     model |-> GetAndFitCustomModel(FeaturesOf(old), MeansOf(old))]

\* TorchModelBridge(experiment=exp, data=..., model=BotorchModel(...)).
TorchModelBridge(data) ==
    [data |-> data,
     model |-> GetAndFitCustomModel(FeaturesOf(data), MeansOf(data))]

----------------------------------------------------------------------------
(* The script *)

Init ==
    /\ pc = "sobol"
    /\ i = 0
    /\ obs = <<>>
    /\ custom_model = <<>>
    /\ candidate = <<>>
    /\ error = "none"
    /\ argXs = <<>>
    /\ argYs = <<>>
    /\ factoryResult = <<>>
    /\ fitCalls = 0
    /\ fitFailures = 0
    /\ evalCalls = 0
    /\ evalFailures = 0
    /\ modelGens = 0

\* A warm start that creates the batch trial without evaluating it.
SobolWarmStart_Lazy ==
    /\ pc = "sobol"
    /\ pc' = "loop"
    /\ UNCHANGED <<i, obs, custom_model, candidate, error, argXs, argYs,
                   factoryResult, fitCalls, fitFailures, evalCalls,
                   evalFailures, modelGens>>

\* sobol = get_sobol(...); exp.new_batch_trial(generator_run=sobol.gen(5)):
\* Ax evaluates branin at the generated points and keeps the results.
SobolWarmStart ==
    /\ pc = "sobol"
    /\ LET arms == SubSeq(SobolPoints, 1, WarmStartCount) IN
       \/ \E ns \in NoiseVectors(WarmStartCount) :
            /\ obs' = Attach(obs, Evaluate(arms, ns))
            /\ evalCalls' = evalCalls + WarmStartCount
            /\ pc' = "loop"
            /\ UNCHANGED <<error, evalFailures>>
       \/ \E k \in 1..WarmStartCount :
            /\ evalCalls' = evalCalls + k
            /\ evalFailures' = evalFailures + 1
            /\ error' = "EvaluationError"
            /\ pc' = "raised"
            /\ UNCHANGED obs
    /\ UNCHANGED <<i, custom_model, candidate, argXs, argYs, factoryResult,
                   fitCalls, fitFailures, modelGens>>

\* A loop cell that runs again once "Done!" is printed.
LoopHead_RunsAgain ==
    /\ pc \in {"loop", "done"}
    /\ IF pc = "done"
         THEN i' = 0 /\ pc' = "fit"
         ELSE i' = i /\ pc' = IF i < Rounds THEN "fit" ELSE "done"
    /\ UNCHANGED <<obs, custom_model, candidate, error, argXs, argYs,
                   factoryResult, fitCalls, fitFailures, evalCalls,
                   evalFailures, modelGens>>

\* A loop that runs one iteration too many.
LoopHead_OffByOne ==
    /\ pc = "loop"
    /\ pc' = IF i <= Rounds THEN "fit" ELSE "done"
    /\ UNCHANGED <<i, obs, custom_model, candidate, error, argXs, argYs,
                   factoryResult, fitCalls, fitFailures, evalCalls,
                   evalFailures, modelGens>>

\* for i in range(5): print(...)   /   print("Done!")
LoopHead ==
    /\ pc = "loop"
    /\ pc' = IF i < Rounds THEN "fit" ELSE "done"
    /\ UNCHANGED <<i, obs, custom_model, candidate, error, argXs, argYs,
                   factoryResult, fitCalls, fitFailures, evalCalls,
                   evalFailures, modelGens>>

\* A driver that skips the round when the fit raises and tries again in the
\* next one, keeping the stale model.
MakeCustomModel_SkipOnError ==
    /\ pc = "fit"
    /\ LET data == ExpEval IN
       /\ argXs' = FeaturesOf(data)
       /\ argYs' = MeansOf(data)
       /\ fitCalls' = fitCalls + 1
       /\ \/ /\ custom_model' = <<TorchModelBridge(data)>>
             /\ pc' = "gen"
             /\ UNCHANGED <<i, error, fitFailures>>
          \/ /\ fitFailures' = fitFailures + 1
             /\ error' = "FitError"
             /\ i' = i + 1
             /\ pc' = "loop"
             /\ UNCHANGED custom_model
    /\ UNCHANGED <<obs, candidate, factoryResult, evalCalls, evalFailures,
                   modelGens>>

\* custom_model = make_custom_model(exp)
MakeCustomModel ==
    /\ pc = "fit"
    /\ LET data == ExpEval IN
       /\ argXs' = FeaturesOf(data)
       /\ argYs' = MeansOf(data)
       /\ fitCalls' = fitCalls + 1
       /\ \/ /\ custom_model' = <<TorchModelBridge(data)>>
             /\ pc' = "gen"
             /\ UNCHANGED <<error, fitFailures>>
          \/ /\ fitFailures' = fitFailures + 1
             /\ error' = "FitError"
             /\ pc' = "raised"
             /\ UNCHANGED custom_model
    /\ UNCHANGED <<i, obs, candidate, factoryResult, evalCalls, evalFailures,
                   modelGens>>

\* custom_model.gen(1)
Gen ==
    /\ pc = "gen"
    /\ \E ps \in [1..BatchSize -> Grid] :
         candidate' = ps
    /\ modelGens' = modelGens + 1
    /\ pc' = "new_trial"
    /\ UNCHANGED <<i, obs, custom_model, error, argXs, argYs, factoryResult,
                   fitCalls, fitFailures, evalCalls, evalFailures>>

\* A driver that skips the round when the evaluation raises and goes on.
NewTrial_SkipOnError ==
    /\ pc = "new_trial"
    /\ \/ \E ns \in NoiseVectors(Len(candidate)) :
            /\ obs' = Attach(obs, Evaluate(candidate, ns))
            /\ evalCalls' = evalCalls + Len(candidate)
            /\ UNCHANGED <<error, evalFailures>>
       \/ \E k \in 1..Len(candidate) :
            /\ evalCalls' = evalCalls + k
            /\ evalFailures' = evalFailures + 1
            /\ error' = "EvaluationError"
            /\ UNCHANGED obs
    /\ i' = i + 1
    /\ pc' = "loop"
    /\ candidate' = <<>>
    /\ UNCHANGED <<custom_model, argXs, argYs, factoryResult, fitCalls,
                   fitFailures, modelGens>>

\* batch = exp.new_trial(generator_run=...): Ax evaluates branin at the
\* candidate and keeps the result; then the next iteration.
NewTrial ==
    /\ pc = "new_trial"
    /\ \/ \E ns \in NoiseVectors(Len(candidate)) :
            /\ obs' = Attach(obs, Evaluate(candidate, ns))
            /\ evalCalls' = evalCalls + Len(candidate)
            /\ i' = i + 1
            /\ pc' = "loop"
            /\ UNCHANGED <<error, evalFailures>>
       \/ \E k \in 1..Len(candidate) :
            /\ evalCalls' = evalCalls + k
            /\ evalFailures' = evalFailures + 1
            /\ error' = "EvaluationError"
            /\ pc' = "raised"
            /\ UNCHANGED <<obs, i>>
    /\ candidate' = <<>>
    /\ UNCHANGED <<custom_model, argXs, argYs, factoryResult, fitCalls,
                   fitFailures, modelGens>>

Next == SobolWarmStart \/ LoopHead \/ MakeCustomModel \/ Gen \/ NewTrial

Spec == Init /\ [][Next]_vars

\* The script is sequential and every statement returns or raises.
FairSpec == Spec /\ WF_vars(Next)

----------------------------------------------------------------------------
(* A direct call of the model factory on arbitrary per-outcome data *)

\* The feature rows a call may carry.
FactoryPoints == {SobolPoints[1], SobolPoints[2]}

Row(p) == <<p.x1, p.x2>>

PointOfRow(r) == Point(r[1], r[2])

\* n x d feature tensors with 1..MaxRows rows.
FeatureTensors ==
    UNION {[1..n -> {Row(p) : p \in FactoryPoints}] : n \in 1..MaxRows}

\* The n x 1 tensor of means that goes with the feature tensor X.
MeansTensor(X, noise) ==
    [k \in 1..Len(X) |-> <<BraninTenths(PointOfRow(X[k])) + noise>>]

FactoryInit ==
    /\ pc = "factory_call"
    /\ \E m \in 1..MaxOutcomes :
         \E Xs \in [1..m -> FeatureTensors], ns \in [1..m -> NoiseDraws] :
            /\ argXs = Xs
            /\ argYs = [j \in 1..m |-> MeansTensor(Xs[j], ns[j])]
    /\ i = 0
    /\ obs = <<>>
    /\ custom_model = <<>>
    /\ candidate = <<>>
    /\ error = "none"
    /\ factoryResult = <<>>
    /\ fitCalls = 0
    /\ fitFailures = 0
    /\ evalCalls = 0
    /\ evalFailures = 0
    /\ modelGens = 0

\* model = _get_and_fit_custom_model(Xs, Ys)
FactoryCall ==
    /\ pc = "factory_call"
    /\ fitCalls' = fitCalls + 1
    /\ \/ /\ factoryResult' = <<GetAndFitCustomModel(argXs, argYs)>>
          /\ pc' = "factory_returned"
          /\ UNCHANGED <<error, fitFailures>>
       \/ /\ fitFailures' = fitFailures + 1
          /\ error' = "FitError"
          /\ pc' = "raised"
          /\ UNCHANGED factoryResult
    /\ UNCHANGED <<i, obs, custom_model, candidate, argXs, argYs, evalCalls,
                   evalFailures, modelGens>>

FactoryNext == FactoryCall

FactorySpec == FactoryInit /\ [][FactoryNext]_vars

----------------------------------------------------------------------------
(* Vocabulary of the properties *)

\* The driver's state, read off the script's position: the warm-start cell,
\* the loop, and the end of the run (after "Done!" or an uncaught exception).
DriverState ==
    CASE pc = "sobol" -> "WARM_START"
      [] pc \in {"done", "raised"} -> "DONE"
      [] OTHER -> "MODEL_GUIDED"

IsPrefix(s, t) == Len(s) <= Len(t) /\ SubSeq(t, 1, Len(s)) = s

Range(s) == {s[k] : k \in 1..Len(s)}

\* The consecutive-failure limits a run could be configured with.
FailureLimits == 1..MaxFailureLimit

\* The model m was built from the data of outcome j of (Xs, Ys).
BuiltFrom(m, Xs, Ys, j) ==
    /\ Range(Xs[j]) \subseteq Range(m.train_X)
    /\ Range(ViewFlat(Ys[j])) \subseteq Range(m.train_Y)

----------------------------------------------------------------------------
(* Properties *)

\* C1: absent failures, after the warm-start batch and n completed rounds of
\* batch size b the experiment holds exactly WarmStartCount + n*b
\* observations, for every n from 0 to the round budget; the tutorial's run
\* (5 warm-start points, 5 rounds, batch size 1) ends with exactly 10.
C1_ObservationCount ==
    /\ (error = "none" /\ pc \in {"loop", "fit", "gen", "new_trial", "done"})
          => /\ i \in 0..Rounds
             /\ Len(obs) = WarmStartCount + i * BatchSize
    /\ pc = "done" => (i = Rounds /\ Len(obs) = 10)

C1_Witness == pc = "done" /\ error = "none" /\ Len(obs) = 10

\* C2 as stated: whatever consecutive-failure limit L is configured, a run
\* whose fits all raise ends exactly after L failed rounds, with the
\* observations it had before the first failure.
C2_Original ==
    \A L \in FailureLimits :
        (DriverState = "DONE" /\ error = "FitError")
            => (fitFailures = L /\ FeaturesOf(obs) = argXs)

\* C2 amended: a run whose fit raises ends with that error after exactly one
\* failed round, the first one (the script has no configurable limit and
\* behaves as if the limit were 1), with the observations it had before the
\* failure.
C2_AbortsAtFirstFailure ==
    error = "FitError"
        => /\ DriverState = "DONE"
           /\ fitFailures = 1
           /\ fitCalls = i + 1
           /\ FeaturesOf(obs) = argXs
           /\ MeansOf(obs) = argYs
           /\ Len(obs) = WarmStartCount + i * BatchSize

C2_Witness ==
    /\ error = "FitError"
    /\ fitCalls = 1
    /\ fitFailures = 1
    /\ Len(obs) = WarmStartCount

\* C3: the driver starts in WARM_START; whenever it is in MODEL_GUIDED, or the
\* model factory or the model-based generator has been invoked, the
\* experiment holds at least WarmStartCount observations, and before that no
\* fit and no model-based generation has happened.
C3_WarmStartFirst ==
    /\ (evalCalls = 0 /\ fitCalls = 0) => DriverState = "WARM_START"
    /\ (DriverState = "MODEL_GUIDED" \/ fitCalls > 0 \/ modelGens > 0)
          => Len(obs) >= WarmStartCount
    /\ Len(obs) < WarmStartCount
          => (fitCalls = 0 /\ modelGens = 0 /\ custom_model = <<>>)

C3_Witness == DriverState = "MODEL_GUIDED" /\ fitCalls = 1 /\ modelGens = 1

\* C4 as stated, read with the limit most favourable to it: a run ends
\* either with the round budget exhausted or after a fit failure that hits
\* the consecutive-failure limit.
C4_Original ==
    DriverState = "DONE"
        => (i = Rounds \/ \E L \in FailureLimits : fitFailures = L)

\* C4 amended: every run eventually ends: with no failure after exactly
\* Rounds model-guided rounds, and otherwise at its first fit or evaluation
\* failure, whose exception ends the run before the budget is exhausted.
C4_Terminates ==
    /\ <>(DriverState = "DONE")
    /\ [](DriverState = "DONE" =>
            IF error = "none"
              THEN pc = "done" /\ i = Rounds /\ fitCalls = Rounds
                   /\ modelGens = Rounds
              ELSE pc = "raised" /\ i < Rounds
                   /\ fitFailures + evalFailures = 1)

C4_Witness == pc = "done" /\ i = Rounds /\ fitCalls = Rounds

\* C5: DONE is terminal: once the driver is in DONE it stays there, the
\* objective function is not evaluated again and the observations do not
\* change.
C5_DoneIsTerminal ==
    [][DriverState = "DONE"
          => (DriverState' = "DONE" /\ obs' = obs /\ evalCalls' = evalCalls)]_vars

C5_Witness == pc = "done" /\ evalCalls = WarmStartCount + Rounds * BatchSize

\* C6 as stated: whatever limit L is configured, a fit failure that leaves
\* the count of failures below L keeps the driver in MODEL_GUIDED, with the
\* observations and the previous model unchanged.
C6_Original ==
    [][\A L \in FailureLimits :
          (fitFailures' = fitFailures + 1 /\ fitFailures' < L)
              => /\ DriverState' = "MODEL_GUIDED"
                 /\ obs' = obs
                 /\ custom_model' = custom_model]_vars

\* C6 amended: a fit failure ends the run: the exception leaves the loop, no
\* observation is appended and custom_model keeps the previous round's
\* model, but the driver goes to DONE and does not retry.
C6_FitFailureEndsRun ==
    [][fitFailures' = fitFailures + 1
          => /\ DriverState = "MODEL_GUIDED"
             /\ DriverState' = "DONE"
             /\ error' = "FitError"
             /\ obs' = obs
             /\ custom_model' = custom_model
             /\ i' = i]_vars

C6_Witness ==
    /\ error = "FitError"
    /\ i >= 1
    /\ custom_model # <<>>
    /\ Len(custom_model[1].data) = Len(obs) - BatchSize

\* C7 as stated: an evaluation error in a round skips the round without
\* appending an observation or evaluating again, and the run goes on.
C7_Original ==
    [][(evalFailures' = evalFailures + 1 /\ DriverState = "MODEL_GUIDED")
          => /\ DriverState' = "MODEL_GUIDED"
             /\ obs' = obs]_vars

\* C7 amended: an evaluation error in a round ends the run: the objective
\* function is not called again for the candidate, no observation is
\* appended, and no later round runs.
C7_EvaluationErrorEndsRun ==
    /\ [](error = "EvaluationError"
            => /\ DriverState = "DONE"
               /\ evalFailures = 1
               /\ fitCalls > 0 =>
                    /\ Len(obs) = WarmStartCount + i * BatchSize
                    /\ evalCalls - Len(obs) \in 1..BatchSize
                    /\ fitCalls = i + 1)
    /\ [][error = "EvaluationError" => UNCHANGED vars]_vars

C7_Witness ==
    /\ error = "EvaluationError"
    /\ i = 2
    /\ fitCalls = 3
    /\ Len(obs) = WarmStartCount + 2 * BatchSize

\* C8 as stated: for m >= 1 outcomes the factory returns a model built from
\* the data of all m outcomes that reports m outputs.
C8_Original ==
    pc = "factory_returned"
        => /\ factoryResult[1].num_outputs = Len(argXs)
           /\ \A j \in 1..Len(argXs) :
                BuiltFrom(factoryResult[1], argXs, argYs, j)

\* C8 amended: for m >= 1 outcomes the factory returns a model built from
\* the data of the first outcome only that reports 1 output; this is a model
\* of all outcomes exactly when m = 1.
C8_FirstOutcomeOnly ==
    pc = "factory_returned"
        => /\ Len(factoryResult) = 1
           /\ factoryResult[1].train_X = argXs[1]
           /\ factoryResult[1].train_Y = ViewFlat(argYs[1])
           /\ Len(factoryResult[1].train_Y) = Len(argXs[1])
           /\ factoryResult[1].num_outputs = 1
           /\ Len(argXs) = 1
                => /\ factoryResult[1].num_outputs = Len(argXs)
                   /\ \A j \in 1..Len(argXs) :
                        BuiltFrom(factoryResult[1], argXs, argYs, j)

C8_Witness ==
    /\ pc = "factory_returned"
    /\ Len(argXs) = 2
    /\ argXs[1] # argXs[2]

\* C9: the observations are append-only: over every step the earlier
\* sequence is a prefix of the later one, and a fit or a generator call
\* leaves it unchanged.
C9_AppendOnly ==
    [][/\ IsPrefix(obs, obs')
       /\ (fitCalls' # fitCalls \/ modelGens' # modelGens) => obs' = obs]_vars

C9_Witness ==
    /\ Len(obs) = WarmStartCount + 2 * BatchSize
    /\ fitCalls = 3
    /\ modelGens = 3

\* C10: in every round a model is fitted before the candidate is generated,
\* and it is fitted on all observations so far: the warm-start observations
\* and the evaluated candidates of all earlier rounds.
C10_FreshModelOnAllData ==
    pc \in {"gen", "new_trial"}
        => /\ custom_model # <<>>
           /\ fitCalls = i + 1
           /\ modelGens = (IF pc = "gen" THEN i ELSE i + 1)
           /\ custom_model[1].data = obs
           /\ custom_model[1].model.train_X = FeaturesOf(obs)[1]
           /\ custom_model[1].model.train_Y = ViewFlat(MeansOf(obs)[1])
           /\ Len(custom_model[1].model.train_X) = WarmStartCount + i * BatchSize

C10_Witness ==
    /\ pc = "new_trial"
    /\ i = Rounds - 1
    /\ Len(custom_model[1].model.train_X) = WarmStartCount + (Rounds - 1) * BatchSize

====
